---- MODULE Spec2Model ----
(***************************************************************************)
(* Model of artistfetcher (src/main.py): the range-notation parser         *)
(* parse_range, the interactive selection loop of __main__, and the        *)
(* catalog readers get_artist_albums / get_artist_singles.                 *)
(*                                                                         *)
(* A Python str is modelled as a sequence of one-character strings, a      *)
(* Python list or tuple as a sequence, None as the string "None".          *)
(***************************************************************************)
EXTENDS Integers, Sequences, FiniteSets, TLC

VARIABLES
    notation,     \* parse_range: the argument string
    group,        \* parse_range: the group argument
    outcome,      \* parse_range: what the call returned or raised
    prevOutcome,  \* outcome of the call on the string before junk was inserted
    derived,      \* TRUE when notation was obtained by inserting junk characters
    pc,           \* position of the modelled program
    artists,      \* __main__: the candidate list
    found,        \* __main__: the candidate list returned by search_artists
    filter,       \* __main__: the last line read by input()
    selection,    \* __main__: the selection of the last prompt
    reported,     \* __main__: the last "Selection error!" line printed
    prompts,      \* __main__: number of input() calls so far
    record,       \* ytmusic.get_artist(...): the artist record of the service
    page,         \* ytmusic.get_artist_albums(...): the paginated listing
    calls,        \* calls made on the ytmusic client, in order
    listing,      \* result of get_artist_albums / get_artist_singles
    candidate,    \* retrieve_artist_data: the artist argument
    target,       \* retrieve_artist_data: the target argument
    tracks,       \* ytmusic.get_album(...)["tracks"], by browse id
    data          \* retrieve_artist_data: the returned full_data_list

vars == <<notation, group, outcome, prevOutcome, derived, pc, artists, found,
          filter, selection, reported, prompts, record, page, calls, listing,
          candidate, target, tracks, data>>

parserVars == <<notation, group, outcome, prevOutcome, derived>>
mainVars == <<artists, found, filter, selection, reported, prompts>>
catalogVars == <<record, page, calls, listing>>
dataVars == <<candidate, target, tracks, data>>

(***************************************************************************)
(* Bounds                                                                  *)
(***************************************************************************)
MaxLen == 5          \* longest notation given to parse_range
MaxFilterLen == 3    \* longest line typed at the selection prompt
MaxArtists == 3      \* most candidates returned by the search
MaxPrompts == 2      \* most lines the operator types at the prompt

None == "None"

(***************************************************************************)
(* Characters                                                              *)
(***************************************************************************)
Digits == {"0", "1", "2", "3", "4", "5", "6", "7", "8", "9"}
Whitespace == {" "}
NotationChars == {"0", "1", "2", "-", ",", " ", "a"}
FilterChars == {"0", "2", "-", ","}
JunkChars == {" ", "a"}

DigitVal(c) ==
    CASE c = "0" -> 0 [] c = "1" -> 1 [] c = "2" -> 2 [] c = "3" -> 3
      [] c = "4" -> 4 [] c = "5" -> 5 [] c = "6" -> 6 [] c = "7" -> 7
      [] c = "8" -> 8 [] c = "9" -> 9

\* All strings over chars of length 0..n
Strings(chars, n) == UNION {[1..k -> chars] : k \in 0..n}

(***************************************************************************)
(* parse_range: cleaning (main.py 53-56)                                   *)
(***************************************************************************)
RECURSIVE LStrip(_)
LStrip(s) ==
    IF s # <<>> /\ Head(s) \in Whitespace THEN LStrip(Tail(s)) ELSE s

RECURSIVE RStrip(_)
RStrip(s) ==
    IF s # <<>> /\ s[Len(s)] \in Whitespace
    THEN RStrip(SubSeq(s, 1, Len(s) - 1)) ELSE s

\* str.strip()
Strip(s) == RStrip(LStrip(s))

IsAllowed(c) == c \in Digits \cup {"-", ","}

KeepEverything(s) == s

\* re.sub(r"[^0-9-,]", "", notation)
KeepAllowed(s) == SelectSeq(s, IsAllowed)

RECURSIVE CollapseRuns(_, _)
\* re.sub(r"-+", "-", notation) and re.sub(r",+", ",", notation)
CollapseRuns(s, ch) ==
    IF Len(s) < 2 THEN s
    ELSE IF s[1] = ch /\ s[2] = ch THEN CollapseRuns(Tail(s), ch)
    ELSE <<s[1]>> \o CollapseRuns(Tail(s), ch)

Clean(s) == CollapseRuns(CollapseRuns(KeepAllowed(Strip(s)), "-"), ",")

(***************************************************************************)
(* parse_range: the one-number check (main.py 58-62)                       *)
(***************************************************************************)
IsDigit(c) == c \in Digits

\* does r"\d-\D|\D-\d" match padded at 1-based position i
MatchesAt(padded, i) ==
    /\ i + 2 <= Len(padded)
    /\ padded[i + 1] = "-"
    /\ \/ IsDigit(padded[i]) /\ ~IsDigit(padded[i + 2])
       \/ ~IsDigit(padded[i]) /\ IsDigit(padded[i + 2])

RECURSIVE FirstMatchFrom(_, _)
FirstMatchFrom(padded, i) ==
    IF i + 2 > Len(padded) THEN -1
    ELSE IF MatchesAt(padded, i) THEN i - 1
    ELSE FirstMatchFrom(padded, i + 1)

\* start() of the first match of re.finditer over f"{notation};", -1 if none
InvalidRangeStart(cleaned) == FirstMatchFrom(cleaned \o <<";">>, 1)

(***************************************************************************)
(* parse_range: segments to integer tuples (main.py 67-71)                 *)
(***************************************************************************)
RECURSIVE Split(_, _)
\* str.split(sep): empty pieces are kept
Split(s, sep) ==
    IF \A i \in 1..Len(s) : s[i] # sep THEN <<s>>
    ELSE LET k == CHOOSE i \in 1..Len(s) :
                      s[i] = sep /\ \A j \in 1..(i - 1) : s[j] # sep
         IN <<SubSeq(s, 1, k - 1)>> \o Split(SubSeq(s, k + 1, Len(s)), sep)

\* str.isnumeric() on what is left after cleaning
IsNumeric(tok) == tok # <<>> /\ \A i \in 1..Len(tok) : IsDigit(tok[i])

RECURSIVE ToInt(_)
\* int(digit)
ToInt(tok) ==
    IF tok = <<>> THEN 0
    ELSE 10 * ToInt(SubSeq(tok, 1, Len(tok) - 1)) + DigitVal(tok[Len(tok)])

RECURSIVE MapInt(_)
MapInt(toks) ==
    IF toks = <<>> THEN <<>> ELSE <<ToInt(Head(toks))>> \o MapInt(Tail(toks))

\* tuple([int(digit) for digit in feat.split("-") if digit.isnumeric()])
Feat(segment) == MapInt(SelectSeq(Split(segment, "-"), IsNumeric))

RECURSIVE MapFeat(_)
MapFeat(segments) ==
    IF segments = <<>> THEN <<>>
    ELSE <<Feat(Head(segments))>> \o MapFeat(Tail(segments))

Abstract(cleaned) == MapFeat(Split(cleaned, ","))

(***************************************************************************)
(* parse_range: syntax validation (main.py 73-78)                          *)
(***************************************************************************)
TooMany(feat) == Len(feat) > 2

\* a validation that forgets the start > end case
StartGreaterNever(feat) == FALSE

StartGreater(feat) == Len(feat) = 2 /\ feat[1] > feat[2]

RECURSIVE FirstInvalidFrom(_, _)
FirstInvalidFrom(abstract, i) ==
    IF i > Len(abstract) THEN -1
    ELSE IF TooMany(abstract[i]) \/ StartGreater(abstract[i]) THEN i - 1
    ELSE FirstInvalidFrom(abstract, i + 1)

\* pos of the first feat the validation loop raises on, -1 if it raises on none
FirstInvalidGroup(abstract) == FirstInvalidFrom(abstract, 1)

SyntaxMessage(feat) ==
    IF TooMany(feat) THEN "Too much numbers specified"
    ELSE "Start greater than the end"

(***************************************************************************)
(* parse_range: building the result (main.py 80-89)                        *)
(***************************************************************************)
\* range(a, b): a, a+1, ..., b-1
Range(a, b) == IF a >= b THEN <<>> ELSE [k \in 1..(b - a) |-> a + k - 1]

\* a grouping that drops the first element of a range
GroupFeatShort(feat) ==
    IF Len(feat) < 2 \/ feat[1] = feat[2] THEN feat
    ELSE Range(feat[1] + 1, feat[2] + 1)

\* feat if len(feat) < 2 or feat[0] == feat[1] else tuple(range(...))
GroupFeat(feat) ==
    IF Len(feat) < 2 \/ feat[1] = feat[2] THEN feat
    ELSE Range(feat[1], feat[2] + 1)

RECURSIVE Grouped(_)
Grouped(abstract) ==
    IF abstract = <<>> THEN <<>>
    ELSE <<GroupFeat(Head(abstract))>> \o Grouped(Tail(abstract))

\* an item of the list handed to Algorithms.flat: an int or a list of items
IntItem(n) == [isList |-> FALSE, val |-> n]

IntItems(ns) == [i \in 1..Len(ns) |-> IntItem(ns[i])]

ListItem(ns) == [isList |-> TRUE, val |-> IntItems(ns)]

\* feat[0] raises IndexError on the empty tuple
RaisesIndexError(abstract) ==
    \E i \in 1..Len(abstract) : abstract[i] = <<>>

RECURSIVE BeforeFlat(_)
\* [list(range(feat[0], feat[1] + 1)) if len(feat) == 2 else feat[0] ...]
BeforeFlat(abstract) ==
    IF abstract = <<>> THEN <<>>
    ELSE LET feat == Head(abstract)
         IN <<IF Len(feat) = 2 THEN ListItem(Range(feat[1], feat[2] + 1))
              ELSE IntItem(feat[1])>> \o BeforeFlat(Tail(abstract))

RECURSIVE Flat(_)
\* Algorithms.flat: the accumulator after the loop over multi, each item
\* appended as it is or replaced by the items of its own flattening (the
\* list is halved instead of walked so that long ranges stay shallow)
Flat(multi) ==
    IF multi = <<>> THEN <<>>
    ELSE IF Len(multi) = 1
    THEN (IF ~multi[1].isList THEN <<multi[1].val>> ELSE Flat(multi[1].val))
    ELSE LET half == Len(multi) \div 2
         IN  Flat(SubSeq(multi, 1, half))
             \o Flat(SubSeq(multi, half + 1, Len(multi)))

(***************************************************************************)
(* parse_range (main.py 36-89)                                             *)
(***************************************************************************)
Return(value) == [kind |-> "ok", msg |-> "", at |-> -1, value |-> value]

Raise(kind, msg, at) == [kind |-> kind, msg |-> msg, at |-> at, value |-> <<>>]

NoOutcome == [kind |-> "none", msg |-> "", at |-> -1, value |-> <<>>]

ParseRange(s, grp) ==
    LET cleaned == Clean(s)
        start == InvalidRangeStart(cleaned)
        abstract == Abstract(cleaned)
        pos == FirstInvalidGroup(abstract)
    IN  IF start # -1
        THEN Raise("InvalidRangeError", "Range string with one number", start)
        ELSE IF cleaned = <<>> THEN Return(<<>>)
        ELSE IF pos # -1
        THEN Raise("InvalidRangeError", SyntaxMessage(abstract[pos + 1]), pos)
        ELSE IF grp THEN Return(Grouped(abstract))
        ELSE IF RaisesIndexError(abstract)
        THEN Raise("IndexError", "tuple index out of range", -1)
        ELSE Return(Flat(BeforeFlat(abstract)))

(***************************************************************************)
(* Specification of the parser: one call of parse_range on a bounded       *)
(* notation, then calls on notations obtained by inserting junk.           *)
(***************************************************************************)
NoReport == [msg |-> "", at |-> -1]

IdleMain ==
    /\ artists = <<>> /\ found = <<>> /\ filter = <<>> /\ selection = <<>>
    /\ reported = NoReport /\ prompts = 0

IdleCatalog ==
    /\ record = None /\ page = <<>> /\ calls = <<>> /\ listing = <<>>

IdleData ==
    /\ candidate = [name |-> <<>>, browse_id |-> None]
    /\ target = <<>> /\ tracks = <<>> /\ data = <<>>

IdleParser ==
    /\ notation = <<>> /\ group = FALSE /\ outcome = NoOutcome
    /\ prevOutcome = NoOutcome /\ derived = FALSE

ParserInit ==
    /\ notation \in Strings(NotationChars, MaxLen)
    /\ group \in BOOLEAN
    /\ outcome = NoOutcome
    /\ prevOutcome = NoOutcome
    /\ derived = FALSE
    /\ pc = "call"
    /\ IdleMain
    /\ IdleCatalog
    /\ IdleData

\* parse_range(notation, group)
Parse ==
    /\ pc = "call"
    /\ outcome' = ParseRange(notation, group)
    /\ pc' = "returned"
    /\ UNCHANGED <<notation, group, prevOutcome, derived, mainVars,
                   catalogVars, dataVars>>

InsertAt(s, i, c) == SubSeq(s, 1, i) \o <<c>> \o SubSeq(s, i + 1, Len(s))

\* the caller inserts one character outside 0-9, '-', ',' and calls again
InsertJunk ==
    /\ pc = "returned"
    /\ Len(notation) < MaxLen
    /\ \E i \in 0..Len(notation), c \in JunkChars :
           notation' = InsertAt(notation, i, c)
    /\ prevOutcome' = outcome
    /\ outcome' = NoOutcome
    /\ derived' = TRUE
    /\ pc' = "call"
    /\ UNCHANGED <<group, mainVars, catalogVars, dataVars>>

ParserNext == Parse \/ InsertJunk

ParserSpec == ParserInit /\ [][ParserNext]_vars

(***************************************************************************)
(* Claims about parse_range                                                *)
(***************************************************************************)
Returned == pc = "returned"

\* the integer tuples of the segments of the cleaned notation
Segments == Abstract(Clean(notation))

Elems(seq) == {seq[i] : i \in 1..Len(seq)}

\* the integers a segment covers: its numbers, or a..b for a range
CoveredBy(feat) == IF Len(feat) = 2 THEN feat[1]..feat[2] ELSE Elems(feat)

Covered == UNION {CoveredBy(Segments[i]) : i \in 1..Len(Segments)}

Min(S) == CHOOSE x \in S : \A y \in S : x <= y

\* C1: a successful ungrouped parse returns exactly the integers the
\* segments cover, each of them exactly once, also when segments repeat a
\* number or overlap.
C1_FlatHoldsEachIntegerOnce ==
    (Returned /\ ~group /\ outcome.kind = "ok") =>
        /\ Elems(outcome.value) = Covered
        /\ \A i, j \in 1..Len(outcome.value) :
               outcome.value[i] = outcome.value[j] => i = j

\* C2: every call either returns a selection or raises InvalidRangeError,
\* never another kind of error, and a failing call returns no selection.
C2_OnlyInvalidRangeError ==
    Returned =>
        /\ outcome.kind \in {"ok", "InvalidRangeError"}
        /\ outcome.kind # "ok" => outcome.value = <<>>

\* a '-' of the cleaned notation with a digit on exactly one side
DashLacksOperand(cleaned) ==
    \E i \in 1..Len(cleaned) :
        /\ cleaned[i] = "-"
        /\ LET before == i > 1 /\ IsDigit(cleaned[i - 1])
               after == i < Len(cleaned) /\ IsDigit(cleaned[i + 1])
           IN  (before /\ ~after) \/ (after /\ ~before)

\* C3: a cleaned notation holding a '-' with a digit on one side only makes
\* the call raise InvalidRangeError "Range string with one number", in both
\* modes, and nothing is returned.
C3_MissingOperandRaises ==
    (Returned /\ DashLacksOperand(Clean(notation))) =>
        /\ outcome.kind = "InvalidRangeError"
        /\ outcome.msg = "Range string with one number"
        /\ outcome.value = <<>>

\* C4: every tuple of a grouped result is strictly ascending and holds only
\* integers >= 0; in particular 'a-a' gives the 1-tuple (a,).
C4_GroupedTuplesStrictlyAscending ==
    (Returned /\ group /\ outcome.kind = "ok") =>
        \A k \in 1..Len(outcome.value) :
            LET t == outcome.value[k]
            IN  /\ \A i \in 1..Len(t) : t[i] >= 0
                /\ \A i \in 1..(Len(t) - 1) : t[i] < t[i + 1]

\* 1-based indices of the segments the syntax rules reject
Offending ==
    {i \in 1..Len(Segments) :
        \/ Len(Segments[i]) > 2
        \/ Len(Segments[i]) = 2 /\ Segments[i][1] > Segments[i][2]}

SegmentCount(cleaned) ==
    IF cleaned = <<>> THEN 0
    ELSE Cardinality({i \in 1..Len(cleaned) : cleaned[i] = ","}) + 1

\* the run a, a+1, ..., b
Run(a, b) == [k \in 1..(b - a + 1) |-> a + k - 1]

\* C6: a successful grouped parse returns one tuple per comma-separated
\* segment of the cleaned notation, in segment order: the run a..b for a
\* segment 'a-b' with a < b, (n,) for a single number n; repeated and
\* overlapping segments stay separate tuples.
C6_GroupedOneTuplePerSegment ==
    (Returned /\ group /\ outcome.kind = "ok") =>
        /\ Len(outcome.value) = SegmentCount(Clean(notation))
        /\ \A i \in 1..Len(outcome.value) :
               LET feat == Segments[i]
               IN  /\ (Len(feat) = 2 /\ feat[1] < feat[2]) =>
                          outcome.value[i] = Run(feat[1], feat[2])
                   /\ Len(feat) = 1 => outcome.value[i] = <<feat[1]>>

\* "1-2,2" style: a range and a number it already covers
C6_Witness ==
    /\ Returned /\ group /\ outcome.kind = "ok"
    /\ Len(outcome.value) = 2
    /\ outcome.value[1] = <<1, 2>>
    /\ outcome.value[2] = <<2>>

\* C7: inserting characters outside 0-9, '-', ',' into a notation changes
\* neither the result nor the error of the call, in both modes.
C7_JunkNeverChangesOutcome ==
    (Returned /\ derived) => outcome = prevOutcome

\* a letter between the segments of a notation that parses
C7_Witness ==
    /\ Returned /\ derived
    /\ outcome.kind = "ok"
    /\ Len(outcome.value) = 2
    /\ \E i \in 2..(Len(notation) - 1) : notation[i] = "a"

(***************************************************************************)
(* __main__: the selection step (main.py 299-322)                          *)
(***************************************************************************)
\* Artist(name=..., browse_id=...); the browse id of the k-th search result
\* is modelled by its list index k, ids being opaque and distinct
Artist(k) == [name |-> "Korn", browse_id |-> k]

\* search_artists: n results, in the order of the service
SearchResults(n) == [i \in 1..n |-> Artist(i - 1)]

\* an except clause that only expects the parser's own error
CaughtInvalidRangeOnly(kind) == kind = "InvalidRangeError"

\* except Exception as err: every error of parse_range is caught
Caught(kind) == kind # "ok"

\* if selection == []: selection = [0]
Coerce(value) == IF value = <<>> THEN <<0>> ELSE value

Contains(seq, x) == \E i \in 1..Len(seq) : seq[i] = x

RECURSIVE KeepSelectedFrom(_, _, _)
KeepSelectedFrom(list, sel, key) ==
    IF key >= Len(list) THEN <<>>
    ELSE (IF Contains(sel, key) THEN <<list[key + 1]>> ELSE <<>>)
         \o KeepSelectedFrom(list, sel, key + 1)

RECURSIVE PickInSelectionOrder(_, _)
\* a filter that walks the selection instead of the candidates
PickInSelectionOrder(list, sel) ==
    IF sel = <<>> THEN <<>>
    ELSE (IF Head(sel) < Len(list) THEN <<list[Head(sel) + 1]>> ELSE <<>>)
         \o PickInSelectionOrder(list, Tail(sel))

\* [artist for key, artist in enumerate(artists) if key in selection]
KeepSelected(list, sel) == KeepSelectedFrom(list, sel, 0)

MainInit ==
    /\ \E n \in 0..MaxArtists : found = SearchResults(n)
    /\ artists = found
    /\ filter = <<>>
    /\ selection = <<>>
    /\ reported = NoReport
    /\ prompts = 0
    /\ pc = "searched"
    /\ IdleParser
    /\ IdleCatalog
    /\ IdleData

\* if len(artists) > 1 is false: the selection step is skipped
SkipSelection ==
    /\ pc = "searched"
    /\ Len(artists) <= 1
    /\ pc' = "selected"
    /\ UNCHANGED <<parserVars, mainVars, catalogVars, dataVars>>

\* drawn_artists_list_options(artists) and entering the while loop
DrawOptions ==
    /\ pc = "searched"
    /\ Len(artists) > 1
    /\ pc' = "prompt"
    /\ UNCHANGED <<parserVars, mainVars, catalogVars, dataVars>>

\* one iteration of the while loop on the line typed by the operator, and,
\* when the loop breaks, the filtering of the candidates that follows it
Prompt(line) ==
    /\ pc = "prompt"
    /\ prompts < MaxPrompts
    /\ prompts' = prompts + 1
    /\ filter' = line
    /\ \E result \in {ParseRange(line, FALSE)} :
           IF result.kind # "ok"
           THEN IF Caught(result.kind)
                THEN /\ reported' = [msg |-> result.msg, at |-> result.at]
                     /\ pc' = "prompt"
                     /\ UNCHANGED <<selection, artists>>
                ELSE /\ pc' = "aborted"
                     /\ UNCHANGED <<reported, selection, artists>>
           ELSE LET chosen == Coerce(result.value)
                IN  /\ selection' = chosen
                    /\ IF Len(chosen) > 0
                       THEN /\ artists' = KeepSelected(artists, chosen)
                            /\ pc' = "selected"
                       ELSE /\ artists' = artists
                            /\ pc' = "prompt"
                    /\ UNCHANGED reported
    /\ UNCHANGED <<found, parserVars, catalogVars, dataVars>>

\* input() raises EOFError outside the try block: the program stops
EndOfInput ==
    /\ pc = "prompt"
    /\ pc' = "aborted"
    /\ UNCHANGED <<parserVars, mainVars, catalogVars, dataVars>>

MainNext ==
    \/ SkipSelection
    \/ DrawOptions
    \/ \E line \in Strings(FilterChars, MaxFilterLen) : Prompt(line)
    \/ EndOfInput

MainSpec == MainInit /\ [][MainNext]_vars

(***************************************************************************)
(* Claims about the selection step                                         *)
(***************************************************************************)
\* C8: with more than one candidate, a line whose parse fails is reported
\* and followed by a new prompt, leaving the candidates and the selection
\* alone; a line that parses ends the loop at once and its selection, and
\* no other, is the one applied.
C8_FailureReportedAndRetried ==
    [][(pc = "prompt" /\ prompts' = prompts + 1) =>
          \A result \in {ParseRange(filter', FALSE)} :
              IF result.kind # "ok"
              THEN /\ pc' = "prompt"
                   /\ reported' = [msg |-> result.msg, at |-> result.at]
                   /\ artists' = artists
                   /\ artists' = found
                   /\ selection' = selection
              ELSE /\ pc' = "selected"
                   /\ reported' = reported
                   /\ Elems(selection') \in {Elems(result.value), {0}}
                   /\ \A i \in 1..Len(artists') :
                          artists'[i].browse_id \in Elems(selection')]_vars

\* a line that fails with an IndexError, then a line that parses
C8_Witness ==
    /\ pc = "selected"
    /\ prompts = 2
    /\ reported.msg = "tuple index out of range"
    /\ Len(artists) = 1

\* C9: after a successful parse an empty selection has become [0], and the
\* candidates kept are exactly those whose list index is in the selection,
\* in their original order, each at most once.
C9_SelectedByIndexInOriginalOrder ==
    (pc = "selected" /\ Len(found) > 1) =>
        /\ LET value == ParseRange(filter, FALSE).value
           IN  selection = (IF value = <<>> THEN <<0>> ELSE value)
        /\ {artists[i].browse_id : i \in 1..Len(artists)} =
               Elems(selection) \cap (0..(Len(found) - 1))
        /\ \A i \in 1..Len(artists) :
               artists[i] = found[artists[i].browse_id + 1]
        /\ \A i \in 1..(Len(artists) - 1) :
               artists[i].browse_id < artists[i + 1].browse_id

\* "2,0": the selection names the candidates in reverse order
C9_Witness ==
    /\ pc = "selected"
    /\ selection = <<2, 0>>
    /\ artists = <<found[1], found[3]>>
    /\ Len(found) = 3

\* C12: when the search returned two or more candidates, the candidate list
\* that leaves the selection step is never empty.
C12_SelectionNeverEmpty ==
    (pc = "selected" /\ Len(found) > 1) => artists # <<>>

(***************************************************************************)
(* The catalog service seen through the ytmusic client                     *)
(***************************************************************************)
ArtistBrowseId == "UCdSgOgQ0WtelXBMKF3tDsqg"

\* entries as the service lists them: more keys than the program keeps
ServiceEntries ==
    {[title |-> <<"/", "I">>, browseId |-> "MPREb_1", year |-> "1999"],
     [title |-> <<"(", "U", ")", " ", "2">>, browseId |-> "MPREb_2",
      year |-> "2002"]}

\* listings of distinct entries, in any order
EntryLists ==
    {<<>>} \cup {<<e>> : e \in ServiceEntries}
           \cup {p \in ServiceEntries \X ServiceEntries : p[1] # p[2]}

\* the browse pointer of the albums page and of the singles page
PageIds == {"MPADalbums", "MPADsingles"}

\* an 'albums' or 'singles' section of the artist record; present and
\* hasParams say whether the key is in the dict at all
Section(pageId) ==
    [present : {TRUE}, browseId : {None, pageId}, hasParams : BOOLEAN,
     params : {"ggMIegYIARoCAQI"}, results : EntryLists]

AbsentSection ==
    [present |-> FALSE, browseId |-> None, hasParams |-> FALSE,
     params |-> "ggMIegYIARoCAQI", results |-> <<>>]

ArtistRecords ==
    [albums : Section("MPADalbums") \cup {AbsentSection},
     singles : Section("MPADsingles") \cup {AbsentSection}]

GetArtistCall(id) == [fn |-> "get_artist", args |-> <<id>>]

PageCall(id, params, limit) ==
    [fn |-> "get_artist_albums", args |-> <<id, params, limit>>]

\* Album(title=album["title"], browse_id=album["browseId"]) for each entry
Albums(entries) ==
    [i \in 1..Len(entries) |->
        [title |-> entries[i].title, browse_id |-> entries[i].browseId]]

\* what a call returns together with the client calls it has made
Outcome(result, made) == [result |-> result, calls |-> made]

\* get_artist_albums(ytmusic, artist_browse_id)
GetArtistAlbums(artistId, rec, pages) ==
    LET artist == rec
        first == GetArtistCall(artistId)
    IN  IF ~artist.albums.present THEN Outcome(<<>>, <<first>>)
        ELSE LET albums == artist.albums
                 albums_browse_id == albums.browseId
                 albums_params ==
                     IF albums.hasParams THEN albums.params ELSE None
             IN  IF albums_browse_id = None
                 THEN Outcome(Albums(albums.results), <<first>>)
                 ELSE Outcome(Albums(pages[albums_browse_id]),
                              <<first, PageCall(albums_browse_id,
                                                albums_params, None)>>)

\* a copy of get_artist_albums that still looks for the 'albums' key
GetArtistSinglesFromAlbums(artistId, rec, pages) ==
    GetArtistAlbums(artistId, rec, pages)

\* get_artist_singles(ytmusic, artist_browse_id)
GetArtistSingles(artistId, rec, pages) ==
    LET artist == rec
        first == GetArtistCall(artistId)
    IN  IF ~artist.singles.present THEN Outcome(<<>>, <<first>>)
        ELSE LET singles == artist.singles
                 singles_browse_id == singles.browseId
                 singles_params ==
                     IF singles.hasParams THEN singles.params ELSE None
             IN  IF singles_browse_id = None
                 THEN Outcome(Albums(singles.results), <<first>>)
                 ELSE Outcome(Albums(pages[singles_browse_id]),
                              <<first, PageCall(singles_browse_id,
                                                singles_params, None)>>)

CatalogInit ==
    /\ record \in ArtistRecords
    /\ page \in [PageIds -> EntryLists]
    /\ calls = <<>>
    /\ listing = <<>>
    /\ pc = "ready"
    /\ IdleParser
    /\ IdleMain
    /\ IdleData

ListAlbums ==
    /\ pc = "ready"
    /\ \E out \in {GetArtistAlbums(ArtistBrowseId, record, page)} :
           /\ listing' = out.result
           /\ calls' = out.calls
    /\ pc' = "albums"
    /\ UNCHANGED <<record, page, parserVars, mainVars, dataVars>>

ListSingles ==
    /\ pc = "ready"
    /\ \E out \in {GetArtistSingles(ArtistBrowseId, record, page)} :
           /\ listing' = out.result
           /\ calls' = out.calls
    /\ pc' = "singles"
    /\ UNCHANGED <<record, page, parserVars, mainVars, dataVars>>

CatalogNext == ListAlbums \/ ListSingles

CatalogSpec == CatalogInit /\ [][CatalogNext]_vars

(***************************************************************************)
(* Claims about the catalog readers                                        *)
(***************************************************************************)
\* the section the finished call was about
SectionRead == IF pc = "albums" THEN record.albums ELSE record.singles

\* listing holds the (title, browse_id) pairs of entries, in their order
SameEntries(entries) ==
    /\ Len(listing) = Len(entries)
    /\ \A i \in 1..Len(entries) :
           /\ listing[i].title = entries[i].title
           /\ listing[i].browse_id = entries[i].browseId
           /\ DOMAIN listing[i] = {"title", "browse_id"}

ServiceTracks ==
    {[title |-> <<"B">>, videoId |-> "qbDaMbHcrSQ", album |-> "Korn"],
     [title |-> <<"N">>, videoId |-> None, album |-> "Korn"]}

\* track listings of distinct tracks, in any order
TrackLists ==
    {<<>>} \cup {<<t>> : t \in ServiceTracks}
           \cup {p \in ServiceTracks \X ServiceTracks : p[1] # p[2]}

EntryIds == {e.browseId : e \in ServiceEntries}

GetAlbumCall(id) == [fn |-> "get_album", args |-> <<id>>]

\* get_album_tracks(ytmusic, album_browse_id)
GetAlbumTracks(albumId, trk) ==
    [i \in 1..Len(trk[albumId]) |->
        [title |-> trk[albumId][i].title,
         video_id |-> trk[albumId][i].videoId]]

SpecialChars == {"\\", "/", "*", "?", ":", "'", "\"", "<", ">", "|"}

\* re.sub(r'[\\/*?:\'"<>|]', "-", filename)
SubSpecial(s) ==
    [i \in 1..Len(s) |-> IF s[i] \in SpecialChars THEN "-" ELSE s[i]]

\* str.replace(old, new) for one-character strings
Replace(s, old, new) == [i \in 1..Len(s) |-> IF s[i] = old THEN new ELSE s[i]]

\* escape_filename_characters(filename)
EscapeFilenameCharacters(filename) ==
    Replace(Replace(Replace(SubSpecial(filename), "(", "["), ")", "]"),
            " ", "_")

RECURSIVE JoinFrom(_, _)
JoinFrom(path, rest) ==
    IF rest = <<>> THEN path
    ELSE LET b == Head(rest)
         IN  IF b # <<>> /\ b[1] = "/" THEN JoinFrom(b, Tail(rest))
             ELSE IF path = <<>> \/ path[Len(path)] = "/"
             THEN JoinFrom(path \o b, Tail(rest))
             ELSE JoinFrom(path \o <<"/">> \o b, Tail(rest))

\* os.path.join(a, *p) of posixpath
PathJoin(a, p) == JoinFrom(a, p)

AlbumsDir == <<"A", "l", "b", "u", "m", "s">>
SinglesDir == <<"S", "i", "n", "g", "l", "e", "s">>

\* ArtistData(...) for every track of one entry
EntryData(cand, entry, localPath, songs) ==
    [i \in 1..Len(songs) |->
        [artist_name |-> cand.name,
         artist_browse_id |-> cand.browse_id,
         song_title |-> songs[i].title,
         song_video_id |-> songs[i].video_id,
         album_title |-> entry.title,
         album_browse_id |-> entry.browse_id,
         local_path |-> localPath]]

\* the body of "for album in albums" for one album
AlbumData(cand, tgt, album, trk) ==
    EntryData(cand, album,
              PathJoin(tgt, <<EscapeFilenameCharacters(cand.name), AlbumsDir,
                              EscapeFilenameCharacters(album.title)>>),
              GetAlbumTracks(album.browse_id, trk))

\* a singles loop copied from the albums loop with its "Albums" left in
SingleDataUnderAlbums(cand, tgt, single, trk) ==
    AlbumData(cand, tgt, single, trk)

\* the body of "for single in singles" for one single
SingleData(cand, tgt, single, trk) ==
    EntryData(cand, single,
              PathJoin(tgt, <<EscapeFilenameCharacters(cand.name), SinglesDir,
                              EscapeFilenameCharacters(single.title)>>),
              GetAlbumTracks(single.browse_id, trk))

RECURSIVE AlbumsLoop(_, _, _, _)
AlbumsLoop(cand, tgt, albums, trk) ==
    IF albums = <<>> THEN <<>>
    ELSE AlbumData(cand, tgt, Head(albums), trk)
         \o AlbumsLoop(cand, tgt, Tail(albums), trk)

RECURSIVE SinglesLoop(_, _, _, _)
SinglesLoop(cand, tgt, singles, trk) ==
    IF singles = <<>> THEN <<>>
    ELSE SingleData(cand, tgt, Head(singles), trk)
         \o SinglesLoop(cand, tgt, Tail(singles), trk)

\* retrieve_artist_data(ytmusic, artist, target): the returned list and the
\* client calls made
RetrieveArtistData(cand, tgt, rec, pages, trk) ==
    LET albums == GetArtistAlbums(cand.browse_id, rec, pages)
        singles == GetArtistSingles(cand.browse_id, rec, pages)
        entries == albums.result \o singles.result
    IN  Outcome(AlbumsLoop(cand, tgt, albums.result, trk)
                \o SinglesLoop(cand, tgt, singles.result, trk),
                albums.calls \o singles.calls
                \o [i \in 1..Len(entries) |->
                       GetAlbumCall(entries[i].browse_id)])

Targets == {<<>>, <<"o", "u", "t">>, <<"o", "/">>}

\* artist records whose sections carry no params (params only reach the
\* arguments of the paginated call)
PlainRecords ==
    {rec \in ArtistRecords : ~rec.albums.hasParams /\ ~rec.singles.hasParams}

DataInit ==
    /\ candidate = [name |-> <<"A", "C", "/", "D", "C", " ", "(", "L", ")">>,
                    browse_id |-> ArtistBrowseId]
    /\ target \in Targets
    /\ record \in PlainRecords
    /\ page \in [PageIds -> EntryLists]
    /\ tracks \in [EntryIds -> TrackLists]
    /\ data = <<>>
    /\ calls = <<>>
    /\ listing = <<>>
    /\ pc = "candidate"
    /\ IdleParser
    /\ IdleMain

\* useful_data = retrieve_artist_data(ytmusic, artist, target)
Retrieve ==
    /\ pc = "candidate"
    /\ \E out \in {RetrieveArtistData(candidate, target, record, page,
                                      tracks)} :
           /\ data' = out.result
           /\ calls' = out.calls
    /\ pc' = "retrieved"
    /\ UNCHANGED <<candidate, target, tracks, record, page, listing,
                   parserVars, mainVars>>

DataNext == Retrieve

DataSpec == DataInit /\ [][DataNext]_vars

(***************************************************************************)
(* Claims about retrieve_artist_data                                       *)
(***************************************************************************)
AlbumListing == GetArtistAlbums(candidate.browse_id, record, page).result

SingleListing == GetArtistSingles(candidate.browse_id, record, page).result

\* the entries in the order claimed: the album listing, then the singles
\* listing, each with the listing it came from
Walk(albums, singles) ==
    [i \in 1..(Len(albums) + Len(singles)) |->
        IF i <= Len(albums)
        THEN [dir |-> AlbumsDir, entry |-> albums[i]]
        ELSE [dir |-> SinglesDir, entry |-> singles[i - Len(albums)]]]

TracksOf(walk, i) == tracks[walk[i].entry.browse_id]

RECURSIVE RecordsBefore(_, _)
\* number of tracks of the entries before the i-th of walk
RecordsBefore(walk, i) ==
    IF i <= 1 THEN 0
    ELSE RecordsBefore(walk, i - 1) + Len(TracksOf(walk, i - 1))

\* the second to last segment of a path
CategoryOf(path) ==
    LET segs == Split(path, "/") IN segs[Len(segs) - 1]

\* C11: the returned list is one record per track, albums in listing order
\* and then singles in listing order, tracks in their listing order, tracks
\* without video id included; each record carries its entry's title and id
\* and a local_path shared by the tracks of the entry, whose category
\* segment is "Albums" for entries of the album listing and "Singles" for
\* entries of the singles listing.
C11_OneRecordPerTrackInListingOrder ==
    pc = "retrieved" =>
        \A walk \in {Walk(AlbumListing, SingleListing)} :
            /\ Len(data) = RecordsBefore(walk, Len(walk) + 1)
            /\ \A i \in 1..Len(walk) :
                   \A first \in {RecordsBefore(walk, i)} :
                       \A k \in 1..Len(TracksOf(walk, i)) :
                           /\ data[first + k].song_title =
                                  TracksOf(walk, i)[k].title
                           /\ data[first + k].song_video_id =
                                  TracksOf(walk, i)[k].videoId
                           /\ data[first + k].album_title =
                                  walk[i].entry.title
                           /\ data[first + k].album_browse_id =
                                  walk[i].entry.browse_id
                           /\ data[first + k].artist_name = candidate.name
                           /\ data[first + k].artist_browse_id =
                                  candidate.browse_id
                           /\ CategoryOf(data[first + k].local_path) =
                                  walk[i].dir
                           /\ data[first + k].local_path =
                                  data[first + 1].local_path

\* inline albums and a paginated singles listing, the same entry in both,
\* with a track without video id
C11_Witness ==
    /\ pc = "retrieved"
    /\ record.albums.present /\ record.albums.browseId = None
    /\ record.singles.present /\ record.singles.browseId # None
    /\ Len(AlbumListing) = 2
    /\ Len(SingleListing) = 1
    /\ SingleListing[1] = AlbumListing[1]
    /\ Len(data) = 5
    /\ data[2].song_video_id = None
    /\ CategoryOf(data[1].local_path) = AlbumsDir
    /\ CategoryOf(data[5].local_path) = SinglesDir

====
